---------------------------- MODULE Spec2Model ----------------------------
(***************************************************************************)
(* A model of neon/data/questionanswer.py (Python 2):                      *)
(*   - class QA   : the minibatch iterator (generator based);              *)
(*   - class BABI : the bAbI text parser, the vocabulary statistics and    *)
(*                  the vectorizer.                                        *)
(* Text is a sequence of one-character strings, a token is a sequence of   *)
(* characters, an example is a tuple <<story, query, answer>>.             *)
(***************************************************************************)
EXTENDS Integers, Sequences, FiniteSets, TLC

(* ------------------------------ bounds -------------------------------- *)
\* largest number of examples given to a QA object
MaxN == 10
\* largest backend batch size (be.bsz)
MaxB == 3
\* number of generators one consumer may obtain from the QA object
MaxPasses == 2
\* largest number of examples when two consumers share a QA object
MaxN2 == 3

(* ------------------------- generic helpers ---------------------------- *)
Min(a, b) == IF a < b THEN a ELSE b

Max(a, b) == IF a < b THEN b ELSE a

RECURSIVE Pow2(_)
Pow2(e) == IF e = 0 THEN 1 ELSE 2 * Pow2(e - 1)

(* ===================================================================== *)
(*                               class QA                                 *)
(* ===================================================================== *)
VARIABLES
    story,        \* QA.story : N rows of story word indices
    query,        \* QA.query : N rows of query word indices
    answer,       \* QA.answer: N one-hot rows
    bsz,          \* self.be.bsz, the backend's batch size
    ndata,        \* QA.ndata
    nbatches,     \* QA.nbatches
    batch_index,  \* QA.batch_index (NoAttr until a generator first runs)
    consumers,    \* the callers that drive generators of the one QA object
    gen,          \* per consumer: position of its current generator
    got,          \* per consumer: the minibatches its current generator yielded
    passes,       \* per consumer: how many generators it has obtained
    stoppedAt,    \* per consumer: the cursor it found when it obtained its generator
    lastCall      \* the last operation performed on the QA object

VARIABLES
    babi_data,    \* parse_babi: the text being parsed
    pc,           \* parse_babi: position ("idle", "start", "loop", "done", "error")
    lines,        \* parse_babi: the list data_to_list returned
    pos,          \* parse_babi: 1-based position of the loop in lines
    data,         \* parse_babi: the examples collected so far
    cur_story,    \* parse_babi: the local `story`, the buffer of the context
    result,       \* parse_babi: the returned list
    err           \* parse_babi: the exception that ended the parse ("" if none)

VARIABLES
    train_file,   \* BABI.train_file (text)
    test_file,    \* BABI.test_file (text)
    train_parsed, \* BABI.train_parsed
    test_parsed,  \* BABI.test_parsed
    vocab_size,   \* BABI.vocab_size
    word_idx,     \* BABI.word_idx
    story_maxlen, \* BABI.story_maxlen
    query_maxlen, \* BABI.query_maxlen
    train,        \* BABI.train
    test,         \* BABI.test
    bpc,          \* BABI.__init__: the statement to execute next
    berr          \* BABI.__init__: the exception that ended it ("" if none)

parseVars == <<babi_data, pc, lines, pos, data, cur_story, result, err>>

babiVars == <<train_file, test_file, train_parsed, test_parsed, vocab_size,
              word_idx, story_maxlen, query_maxlen, train, test, bpc, berr>>

qaFields == <<story, query, answer, bsz, ndata, nbatches>>

qaVars == <<story, query, answer, bsz, ndata, nbatches, batch_index,
            consumers, gen, got, passes, stoppedAt, lastCall>>

vars == <<qaVars, parseVars, babiVars>>

\* no text is being parsed
ParseIdle ==
    /\ babi_data = <<>>
    /\ pc = "idle"
    /\ lines = <<>>
    /\ pos = 0
    /\ data = <<>>
    /\ cur_story = <<>>
    /\ result = <<>>
    /\ err = ""

\* no BABI object is being constructed
BabiIdle ==
    /\ train_file = <<>>
    /\ test_file = <<>>
    /\ train_parsed = <<>>
    /\ test_parsed = <<>>
    /\ vocab_size = 0
    /\ word_idx = <<>>
    /\ story_maxlen = 0
    /\ query_maxlen = 0
    /\ train = <<>>
    /\ test = <<>>
    /\ bpc = "idle"
    /\ berr = ""

\* no QA object exists
QAIdle ==
    /\ story = <<>>
    /\ query = <<>>
    /\ answer = <<>>
    /\ bsz = 0
    /\ ndata = 0
    /\ nbatches = 0
    /\ batch_index = 0
    /\ consumers = {}
    /\ gen = <<>>
    /\ got = <<>>
    /\ passes = <<>>
    /\ stoppedAt = <<>>
    /\ lastCall = "none"

\* the attribute batch_index does not exist before __iter__'s body first runs
NoAttr == -1

\* A 2-d ndarray is a record [rows, width]: shape = (Len(rows), width).
\* Sample arrays of n examples with pairwise different rows.
SampleStory(n) == [rows |-> [i \in 1..n |-> <<i, i + 100>>], width |-> 2]

SampleQuery(n) == [rows |-> [i \in 1..n |-> <<2 * i>>], width |-> 1]

SampleAnswer(n) ==
    [rows |-> [i \in 1..n |-> [j \in 1..3 |-> IF j = (i % 3) + 1 THEN 1 ELSE 0]],
     width |-> 3]

\* Python's a[start:end, :] (0-based, end exclusive, clipped to the array)
Slice(a, start, end) ==
    [rows |-> SubSeq(a.rows, Min(start, Len(a.rows)) + 1, Min(end, Len(a.rows))),
     width |-> a.width]

\* ndarray.T
Transpose(a) ==
    [rows |-> [j \in 1..a.width |-> [i \in 1..Len(a.rows) |-> a.rows[i][j]]],
     width |-> Len(a.rows)]

\* exponent e with 2^e <= v < 2^(e+1), v >= 1
RECURSIVE Log2(_)
Log2(v) == IF v < 2 THEN 0 ELSE 1 + Log2(v \div 2)

\* astype(np.float32) of a non-negative integer: 24 bits of significand,
\* round half to even
AsFloat32(v) ==
    IF v < Pow2(24) THEN v
    ELSE LET ulp == Pow2(Log2(v) - 23)
             lo  == (v \div ulp) * ulp
             r   == v - lo
         IN  IF 2 * r < ulp THEN lo
             ELSE IF 2 * r > ulp THEN lo + ulp
             ELSE IF (lo \div ulp) % 2 = 0 THEN lo ELSE lo + ulp

\* ndarray.astype(np.float32, order='C')
AsType32(a) ==
    [rows |-> [j \in 1..Len(a.rows) |->
                 [i \in 1..a.width |-> AsFloat32(a.rows[j][i])]],
     width |-> a.width]

\* a[start:end, :].T.astype(np.float32, order='C')
BatchOf(a, start, end) == AsType32(Transpose(Slice(a, start, end)))

\* QA.__init__: nbatches = ndata / bsz is Python 2 integer division
QAInit(s, q, a, b) ==
    /\ story = s
    /\ query = q
    /\ answer = a
    /\ bsz = b
    /\ ndata = Len(s.rows)
    /\ nbatches = Len(s.rows) \div b
    /\ batch_index = NoAttr

InitQA(users, maxN) ==
    /\ \E n \in 0..maxN, b \in 1..MaxB :
          QAInit(SampleStory(n), SampleQuery(n), SampleAnswer(n), b)
    /\ consumers = users
    /\ gen = [c \in users |-> "none"]
    /\ got = [c \in users |-> <<>>]
    /\ passes = [c \in users |-> 0]
    /\ stoppedAt = [c \in users |-> NoAttr]
    /\ lastCall = "init"
    /\ ParseIdle
    /\ BabiIdle

\* iter(qa): calling the generator function only creates a generator object;
\* no line of the body runs before the first next()
Iter(c) ==
    /\ passes[c] < MaxPasses
    /\ gen' = [gen EXCEPT ![c] = "created"]
    /\ got' = [got EXCEPT ![c] = <<>>]
    /\ passes' = [passes EXCEPT ![c] = @ + 1]
    /\ stoppedAt' = [stoppedAt EXCEPT ![c] = batch_index]
    /\ lastCall' = "iter"
    /\ UNCHANGED <<qaFields, batch_index, consumers, parseVars, babiVars>>

\* faulty variant: the cursor is initialised once, not at the start of every pass
CursorNoRestart(c) == IF batch_index = NoAttr THEN 0 ELSE batch_index

\* the value of self.batch_index at the loop test when generator c resumes:
\* a fresh generator first executes  self.batch_index = 0
CursorAtTest(c) == IF gen[c] = "created" THEN 0 ELSE batch_index

\* faulty variant: the cursor skips a batch
AdvanceByTwo(k) == k + 2

\* the statement  self.batch_index += 1
Advance(k) == k + 1

\* faulty variant: the start row is not scaled by the batch size
StartRowUnscaled(k) == k

\* first row of minibatch k: start = self.batch_index*self.be.bsz
StartRow(k) == k * bsz

\* one past the last row: end = (self.batch_index+1)*self.be.bsz
EndRow(k) == (k + 1) * bsz

\* the tuple (story_tensor, query_tensor), answer_tensor built from cursor k
Minibatch(k) ==
    <<  <<BatchOf(story, StartRow(k), EndRow(k)),
          BatchOf(query, StartRow(k), EndRow(k))>>,
        BatchOf(answer, StartRow(k), EndRow(k)) >>

\* faulty variant: the loop runs while any example is left (a partial last batch)
LoopTestCeil(k) == k * bsz < ndata

\* the loop test  self.batch_index < self.nbatches
LoopTest(k) == k < nbatches

\* next(g): run generator c from where it is suspended to its next yield,
\* or to the end of the loop (StopIteration)
NextBatch(c) ==
    /\ gen[c] \in {"created", "suspended"}
    /\ LET k == CursorAtTest(c)
       IN  IF LoopTest(k)
           THEN /\ batch_index' = Advance(k)
                /\ got' = [got EXCEPT ![c] = Append(@, Minibatch(k))]
                /\ gen' = [gen EXCEPT ![c] = "suspended"]
           ELSE /\ batch_index' = k
                /\ got' = got
                /\ gen' = [gen EXCEPT ![c] = "done"]
    /\ lastCall' = "next"
    /\ UNCHANGED <<qaFields, consumers, passes, stoppedAt, parseVars, babiVars>>

\* faulty variant: reset does what its docstring says
ResetToZero ==
    /\ lastCall' = "reset"
    /\ batch_index' = 0
    /\ UNCHANGED <<qaFields, consumers, gen, got, passes, stoppedAt,
                   parseVars, babiVars>>

\* QA.reset: the body is `pass`
Reset ==
    /\ lastCall' = "reset"
    /\ UNCHANGED <<qaFields, batch_index, consumers, gen, got, passes, stoppedAt,
                   parseVars, babiVars>>

NextQA ==
    \/ \E c \in consumers : Iter(c)
    \/ \E c \in consumers : NextBatch(c)
    \/ Reset

\* one caller drives the QA object
SpecQA == InitQA({1}, MaxN) /\ [][NextQA]_vars

\* two callers share the QA object and interleave their steps
SpecQA2 == InitQA({1, 2}, MaxN2) /\ [][NextQA]_vars

(* ===================================================================== *)
(*                     class BABI: text and parsing                       *)
(* ===================================================================== *)
\* the characters of code points 32..95, in code point order
Printable ==
    <<" ", "!", "\"", "#", "$", "%", "&", "'", "(", ")", "*", "+", ",", "-",
      ".", "/", "0", "1", "2", "3", "4", "5", "6", "7", "8", "9", ":", ";",
      "<", "=", ">", "?", "@", "A", "B", "C", "D", "E", "F", "G", "H", "I",
      "J", "K", "L", "M", "N", "O", "P", "Q", "R", "S", "T", "U", "V", "W",
      "X", "Y", "Z", "[", "\\", "]", "^", "_">>

\* the characters of code points 97..126, in code point order
PrintableHigh ==
    <<"a", "b", "c", "d", "e",
      "f", "g", "h", "i", "j", "k", "l", "m", "n", "o", "p", "q", "r", "s",
      "t", "u", "v", "w", "x", "y", "z", "{", "|", "}", "~">>

\* the characters of the model's texts
Chars ==
    {Printable[i] : i \in 1..Len(Printable)}
        \cup {PrintableHigh[i] : i \in 1..Len(PrintableHigh)}
        \cup {"\t", "\n", "\f", "\r"}

\* the code point of each character (tab 9, newline 10, form feed 12,
\* carriage return 13, the printable characters 32..95 and 97..126)
CodePoint ==
    [c \in Chars |->
        CASE c = "\t" -> 9
          [] c = "\n" -> 10
          [] c = "\f" -> 12
          [] c = "\r" -> 13
          [] \E i \in 1..Len(Printable) : Printable[i] = c ->
                31 + (CHOOSE i \in 1..Len(Printable) : Printable[i] = c)
          [] OTHER ->
                96 + (CHOOSE i \in 1..Len(PrintableHigh) : PrintableHigh[i] = c)]

\* ord(c)
Ord(c) == CodePoint[c]

\* the characters str.strip() removes and x.strip() tests for
IsSpace(c) == c \in {" ", "\t", "\n", "\r", "\f"}

\* the characters the regular expression class \w matches: [a-zA-Z0-9_]
IsWord(c) ==
    LET o == Ord(c)
    IN  \/ 48 <= o /\ o <= 57
        \/ 65 <= o /\ o <= 90
        \/ 97 <= o /\ o <= 122
        \/ o = 95

IsDigit(c) == 48 <= Ord(c) /\ Ord(c) <= 57

\* c in s
Contains(s, c) == \E i \in 1..Len(s) : s[i] = c

\* s.find(c) as a 1-based position, 0 when c does not occur
Find(s, c) ==
    IF Contains(s, c) THEN CHOOSE i \in 1..Len(s) :
                               s[i] = c /\ \A j \in 1..(i - 1) : s[j] # c
    ELSE 0

\* s.split(c): the pieces between the occurrences of c (always >= 1 piece)
RECURSIVE Split(_, _)
Split(s, c) ==
    LET i == Find(s, c)
    IN  IF i = 0 THEN <<s>>
        ELSE <<SubSeq(s, 1, i - 1)>> \o Split(SubSeq(s, i + 1, Len(s)), c)

\* s.split(c, 1): at most one split, at the first occurrence of c
SplitOnce(s, c) ==
    LET i == Find(s, c)
    IN  IF i = 0 THEN <<s>>
        ELSE <<SubSeq(s, 1, i - 1), SubSeq(s, i + 1, Len(s))>>

\* s.strip(): without its leading and trailing whitespace
Strip(s) ==
    LET keep == {i \in 1..Len(s) : ~IsSpace(s[i])}
    IN  IF keep = {} THEN <<>>
        ELSE SubSeq(s, CHOOSE i \in keep : \A j \in keep : i <= j,
                       CHOOSE i \in keep : \A j \in keep : j <= i)

\* unichr(o) for the code points of Ord
Chr(o) ==
    CASE o = 9 -> "\t"
      [] o = 10 -> "\n"
      [] o = 12 -> "\f"
      [] o = 13 -> "\r"
      [] o <= 95 -> Printable[o - 31]
      [] OTHER -> PrintableHigh[o - 96]

\* line.decode('utf-8'): a byte below 128 decodes to the character of the
\* same code point (the texts of this model hold no other byte)
Decode(s) == [i \in 1..Len(s) |-> Chr(Ord(s[i]))]

\* int(s) for an optionally signed run of decimal digits; every other
\* string of this model makes int() raise ValueError
IsInt(s) ==
    LET d == IF Len(s) > 0 /\ s[1] \in {"+", "-"} THEN SubSeq(s, 2, Len(s)) ELSE s
    IN  Len(d) > 0 /\ \A i \in 1..Len(d) : IsDigit(d[i])

RECURSIVE DigitsValue(_)
DigitsValue(d) ==
    IF Len(d) = 0 THEN 0
    ELSE 10 * DigitsValue(SubSeq(d, 1, Len(d) - 1)) + (Ord(d[Len(d)]) - 48)

IntOf(s) ==
    IF s[1] = "-" THEN 0 - DigitsValue(SubSeq(s, 2, Len(s)))
    ELSE IF s[1] = "+" THEN DigitsValue(SubSeq(s, 2, Len(s)))
    ELSE DigitsValue(s)

\* BABI.data_to_list: data.split('\n')[:-1], each line decoded and stripped
data_to_list(text) ==
    LET parts == Split(text, "\n")
    IN  [i \in 1..(Len(parts) - 1) |-> Strip(Decode(parts[i]))]

\* length of the longest prefix of s whose characters all are (word = TRUE)
\* or all are not (word = FALSE) matched by \w
RECURSIVE RunLength(_, _)
RunLength(s, word) ==
    IF Len(s) = 0 \/ IsWord(s[1]) # word THEN 0
    ELSE 1 + RunLength(SubSeq(s, 2, Len(s)), word)

\* re.split('(\W+)?', s) in Python 2: an empty match never splits, so the
\* result alternates the text between two maximal runs of non-word
\* characters with the (captured) run itself: [text, run, text, ..., text]
RECURSIVE ReSplit(_)
ReSplit(s) ==
    LET w == RunLength(s, TRUE)
        n == RunLength(SubSeq(s, w + 1, Len(s)), FALSE)
    IN  IF w = Len(s) THEN <<s>>
        ELSE <<SubSeq(s, 1, w), SubSeq(s, w + 1, w + n)>>
                 \o ReSplit(SubSeq(s, w + n + 1, Len(s)))

NonEmpty(x) == Len(x) > 0

\* [f(x) for x in s if x]-style selection of the non-empty elements
SelectNonEmpty(s) == SelectSeq(s, NonEmpty)

\* BABI.tokenize: [x.strip() for x in re.split('(\W+)?', sentence) if x.strip()]
tokenize(sentence) ==
    LET pieces == ReSplit(sentence)
    IN  SelectNonEmpty([i \in 1..Len(pieces) |-> Strip(pieces[i])])

\* faulty variant: reduce with an initial value, reduce(lambda x, y: x + y, data, [])
FlattenNeverFails(d) == FALSE

\* reduce() of an empty sequence with no initial value raises TypeError
FlattenFails(d) == Len(d) = 0

\* BABI.flatten: reduce(lambda x, y: x + y, data), a left fold
RECURSIVE flatten(_)
flatten(d) ==
    IF Len(d) = 0 THEN <<>>
    ELSE IF Len(d) = 1 THEN d[1]
    ELSE flatten(SubSeq(d, 1, Len(d) - 1)) \o d[Len(d)]

\* faulty variant: the story buffer is never cleared
StoryAtKeep(nid, buf) == buf

\* if int(nid) == 1: story = []
StoryAt(nid, buf) == IF nid = 1 THEN <<>> ELSE buf

\* substory = [x for x in story if x]
Substory(buf) == SelectNonEmpty(buf)

\* One iteration of the loop of parse_babi on `line`, from the locals
\* st = [data, story, err].  The placeholder '' appended after a question is
\* the empty character sequence.
ParseLine(st, line) ==
    LET parts == SplitOnce(line, " ")
    IN  IF Len(parts) # 2 \/ ~IsInt(parts[1])
        THEN [st EXCEPT !.err = "ValueError"]
        ELSE
        LET nid  == IntOf(parts[1])
            rest == parts[2]
            buf  == StoryAt(nid, st.story)
        IN  IF Contains(rest, "\t")
            THEN LET f == Split(rest, "\t")
                 IN  IF Len(f) # 3 THEN [st EXCEPT !.err = "ValueError"]
                     ELSE [data  |-> Append(st.data,
                                       <<Substory(buf), tokenize(f[1]), f[2]>>),
                           story |-> Append(buf, <<>>),
                           err   |-> ""]
            ELSE [data  |-> st.data,
                  story |-> Append(buf, tokenize(rest)),
                  err   |-> ""]

\* return [(BABI.flatten(story), q, answer) for story, q, answer in data]
ParseReturnFails(d) == \E i \in 1..Len(d) : FlattenFails(d[i][1])

ParseReturn(d) == [i \in 1..Len(d) |-> <<flatten(d[i][1]), d[i][2], d[i][3]>>]

\* the whole loop, from line i on
RECURSIVE ParseLoop(_, _, _)
ParseLoop(ls, i, st) ==
    IF i > Len(ls) \/ st.err # "" THEN st
    ELSE ParseLoop(ls, i + 1, ParseLine(st, ls[i]))

\* BABI.parse_babi as a function of the text: [err, value]
parse_babi(text) ==
    LET st == ParseLoop(data_to_list(text), 1,
                        [data |-> <<>>, story |-> <<>>, err |-> ""])
    IN  IF st.err # "" THEN [err |-> st.err, value |-> <<>>]
        ELSE IF ParseReturnFails(st.data) THEN [err |-> "TypeError", value |-> <<>>]
        ELSE [err |-> "", value |-> ParseReturn(st.data)]

(* ------------------ parse_babi, statement by statement ----------------- *)
\* largest number of lines of a parsed text
MaxLines == 4

\* "1 Mary moved to the bathroom."
LineMarySentence ==
    <<"1", " ", "M", "a", "r", "y", " ", "m", "o", "v", "e", "d", " ", "t",
      "o", " ", "t", "h", "e", " ", "b", "a", "t", "h", "r", "o", "o", "m",
      ".">>

\* "2 Where is Mary?\tbathroom\t1"
LineMaryQuestion ==
    <<"2", " ", "W", "h", "e", "r", "e", " ", "i", "s", " ", "M", "a", "r",
      "y", "?", "\t", "b", "a", "t", "h", "r", "o", "o", "m", "\t", "1">>

\* "2 c, d"
LineSentence ==
    <<"2", " ", "c", ",", " ", "d">>

\* "1 e?\tf\t1"
LineQuestionFirst ==
    <<"1", " ", "e", "?", "\t", "f", "\t", "1">>

\* "3 g\th"
LineTwoFields ==
    <<"3", " ", "g", "\t", "h">>

\* "x y"
LineNoNumber ==
    <<"x", " ", "y">>

ParseLineSet ==
    {LineMarySentence, LineMaryQuestion, LineSentence, LineQuestionFirst,
     LineTwoFields, LineNoNumber}

\* '\n'.join(ls)
RECURSIVE Join(_)
Join(ls) ==
    IF Len(ls) = 0 THEN <<>>
    ELSE IF Len(ls) = 1 THEN ls[1]
    ELSE ls[1] \o <<"\n">> \o Join(SubSeq(ls, 2, Len(ls)))

\* the sequences of at most n elements of S
SeqUpTo(S, n) == UNION {[1..k -> S] : k \in 0..n}

\* the texts given to parse_babi: up to MaxLines lines, with or without a
\* newline after the last one
ParseInputs ==
    {Join(ls) \o nl : ls \in SeqUpTo(ParseLineSet, MaxLines), nl \in {<<>>, <<"\n">>}}

InitParse ==
    /\ babi_data \in ParseInputs
    /\ pc = "start"
    /\ lines = <<>>
    /\ pos = 0
    /\ data = <<>>
    /\ cur_story = <<>>
    /\ result = <<>>
    /\ err = ""
    /\ QAIdle
    /\ BabiIdle

\* lines = BABI.data_to_list(babi_data); data, story = [], []
DataToList ==
    /\ pc = "start"
    /\ lines' = data_to_list(babi_data)
    /\ data' = <<>>
    /\ cur_story' = <<>>
    /\ pos' = 1
    /\ pc' = "loop"
    /\ UNCHANGED <<babi_data, result, err, qaVars, babiVars>>

\* one iteration of  for line in lines
LoopStep ==
    /\ pc = "loop"
    /\ pos <= Len(lines)
    /\ \E st \in {ParseLine([data |-> data, story |-> cur_story, err |-> ""],
                             lines[pos])} :
           /\ data' = st.data
           /\ cur_story' = st.story
           /\ err' = st.err
           /\ pc' = IF st.err # "" THEN "error" ELSE "loop"
           /\ pos' = IF st.err # "" THEN pos ELSE pos + 1
    /\ UNCHANGED <<babi_data, lines, result, qaVars, babiVars>>

\* the return statement, after the loop
Return ==
    /\ pc = "loop"
    /\ pos > Len(lines)
    /\ IF ParseReturnFails(data)
       THEN /\ err' = "TypeError"
            /\ pc' = "error"
            /\ result' = result
       ELSE /\ err' = err
            /\ pc' = "done"
            /\ result' = ParseReturn(data)
    /\ UNCHANGED <<babi_data, lines, pos, data, cur_story, qaVars, babiVars>>

NextParse ==
    \/ DataToList
    \/ LoopStep
    \/ Return

SpecParse == InitParse /\ [][NextParse]_vars

(* ===================================================================== *)
(*            class BABI: statistics, vectorizing, construction           *)
(* ===================================================================== *)
\* the elements of a sequence
Range(s) == {s[i] : i \in 1..Len(s)}

\* faulty variant: the statistics are computed over the train split alone
TrainOnly(tr, te) == tr

\* all_data = self.train_parsed + self.test_parsed
AllData(tr, te) == tr \o te

\* set(s + q + [a]) of one example
WordsOf(ex) == Range(ex[1] \o ex[2] \o <<ex[3]>>)

\* reduce(lambda x, y: x | y, (set(s + q + [a]) for s, q, a in all_data))
VocabSet(all) == UNION {WordsOf(all[i]) : i \in 1..Len(all)}

\* a < b for two strings: by the first differing code point, a proper
\* prefix first
RECURSIVE StrLess(_, _)
StrLess(a, b) ==
    IF Len(b) = 0 THEN FALSE
    ELSE IF Len(a) = 0 THEN TRUE
    ELSE IF Ord(a[1]) # Ord(b[1]) THEN Ord(a[1]) < Ord(b[1])
    ELSE StrLess(SubSeq(a, 2, Len(a)), SubSeq(b, 2, Len(b)))

\* sorted(S) for a set of strings
RECURSIVE Sorted(_)
Sorted(S) ==
    IF S = {} THEN <<>>
    ELSE LET m == CHOOSE x \in S : \A y \in S \ {x} : StrLess(x, y)
         IN  <<m>> \o Sorted(S \ {m})

\* faulty variant: the index of a word is its 0-based position in the vocabulary
WordIndexFromZero(vocab) ==
    [w \in Range(vocab) |-> (CHOOSE i \in 1..Len(vocab) : vocab[i] = w) - 1]

\* dict((c, i + 1) for i, c in enumerate(vocab)): with enumerate counting
\* from 0, i + 1 is the 1-based position of c in vocab
WordIndex(vocab) ==
    [w \in Range(vocab) |-> CHOOSE i \in 1..Len(vocab) : vocab[i] = w]

\* self.vocab_size = len(vocab) + 1
VocabSize(vocab) == Len(vocab) + 1

\* max(map(len, (ex[k] for ex in all_data))), all_data not empty
RECURSIVE MaxLen(_, _)
MaxLen(all, k) ==
    IF Len(all) = 1 THEN Len(all[1][k])
    ELSE Max(Len(all[Len(all)][k]), MaxLen(SubSeq(all, 1, Len(all) - 1), k))

\* self.word_idx[w] raises KeyError
LookupFails(w) == w \notin DOMAIN word_idx

\* BABI.words_to_vector
words_to_vector(words) == [i \in 1..Len(words) |-> word_idx[words[i]]]

\* BABI.one_hot_vector: np.zeros(self.vocab_size) with entry
\* word_idx[answer] (0-based) set to 1
one_hot_vector(a) ==
    [j \in 1..vocab_size |-> IF j - 1 = word_idx[a] THEN 1 ELSE 0]

\* Text.pad_sentences: every row holds the last `maxlen` entries of the
\* sentence, left-padded with 0
pad_sentences(s, maxlen) ==
    [rows |-> [i \in 1..Len(s) |->
                 LET t == SubSeq(s[i], Max(1, Len(s[i]) - maxlen + 1), Len(s[i]))
                 IN  [j \in 1..maxlen |->
                        IF j <= maxlen - Len(t) THEN 0
                        ELSE t[j - (maxlen - Len(t))]]],
     width |-> maxlen]

\* vectorize_stories raises KeyError on the first word without an index
VectorizeFails(d) ==
    \E i \in 1..Len(d) :
        \/ \E j \in 1..Len(d[i][1]) : LookupFails(d[i][1][j])
        \/ \E j \in 1..Len(d[i][2]) : LookupFails(d[i][2][j])
        \/ LookupFails(d[i][3])

\* BABI.vectorize_stories: the tuple (s, q, a)
vectorize_stories(d) ==
    << pad_sentences([i \in 1..Len(d) |-> words_to_vector(d[i][1])], story_maxlen),
       pad_sentences([i \in 1..Len(d) |-> words_to_vector(d[i][2])], query_maxlen),
       [rows |-> [i \in 1..Len(d) |-> one_hot_vector(d[i][3])],
        width |-> vocab_size] >>

\* largest number of lines of a train or test file
MaxFileLines == 3

\* "1 b a."
BabiSentenceFirst ==
    <<"1", " ", "b", " ", "a", ".">>

\* "2 c"
BabiSentence ==
    <<"2", " ", "c">>

\* "3 a?\td\t1"
BabiQuestion ==
    <<"3", " ", "a", "?", "\t", "d", "\t", "1">>

BabiLineSet == {BabiSentenceFirst, BabiSentence, BabiQuestion}

\* the train and test files: up to MaxFileLines lines, each ended by a newline
BabiInputs ==
    {IF Len(ls) = 0 THEN <<>> ELSE Join(ls) \o <<"\n">> :
        ls \in SeqUpTo(BabiLineSet, MaxFileLines)}

\* BABI.__init__ after load_babi returned the two texts
InitBabi ==
    /\ train_file \in BabiInputs
    /\ test_file \in BabiInputs
    /\ train_parsed = <<>>
    /\ test_parsed = <<>>
    /\ vocab_size = 0
    /\ word_idx = <<>>
    /\ story_maxlen = 0
    /\ query_maxlen = 0
    /\ train = <<>>
    /\ test = <<>>
    /\ bpc = "parse_train"
    /\ berr = ""
    /\ QAIdle
    /\ ParseIdle

\* self.train_parsed = BABI.parse_babi(self.train_file)
ParseTrain ==
    /\ bpc = "parse_train"
    /\ \E r \in {parse_babi(train_file)} :
           /\ train_parsed' = r.value
           /\ berr' = r.err
           /\ bpc' = IF r.err # "" THEN "error" ELSE "parse_test"
    /\ UNCHANGED <<train_file, test_file, test_parsed, vocab_size, word_idx,
                   story_maxlen, query_maxlen, train, test, qaVars, parseVars>>

\* self.test_parsed = BABI.parse_babi(self.test_file)
ParseTest ==
    /\ bpc = "parse_test"
    /\ \E r \in {parse_babi(test_file)} :
           /\ test_parsed' = r.value
           /\ berr' = r.err
           /\ bpc' = IF r.err # "" THEN "error" ELSE "statistics"
    /\ UNCHANGED <<train_file, test_file, train_parsed, vocab_size, word_idx,
                   story_maxlen, query_maxlen, train, test, qaVars, parseVars>>

\* BABI.compute_statistics; reduce() and max() of nothing raise
compute_statistics ==
    /\ bpc = "statistics"
    /\ \E all_data \in {AllData(train_parsed, test_parsed)} :
       \E vocab \in {Sorted(VocabSet(all_data))} :
           IF Len(all_data) = 0
           THEN /\ berr' = "TypeError"
                /\ bpc' = "error"
                /\ UNCHANGED <<vocab_size, word_idx, story_maxlen, query_maxlen>>
           ELSE /\ vocab_size' = VocabSize(vocab)
                /\ word_idx' = WordIndex(vocab)
                /\ story_maxlen' = MaxLen(all_data, 1)
                /\ query_maxlen' = MaxLen(all_data, 2)
                /\ berr' = berr
                /\ bpc' = "vectorize_train"
    /\ UNCHANGED <<train_file, test_file, train_parsed, test_parsed, train, test,
                   qaVars, parseVars>>

\* self.train = self.vectorize_stories(self.train_parsed)
VectorizeTrain ==
    /\ bpc = "vectorize_train"
    /\ IF VectorizeFails(train_parsed)
       THEN /\ berr' = "KeyError"
            /\ bpc' = "error"
            /\ train' = train
       ELSE /\ berr' = berr
            /\ bpc' = "vectorize_test"
            /\ train' = vectorize_stories(train_parsed)
    /\ UNCHANGED <<train_file, test_file, train_parsed, test_parsed, vocab_size,
                   word_idx, story_maxlen, query_maxlen, test, qaVars, parseVars>>

\* self.test = self.vectorize_stories(self.test_parsed)
VectorizeTest ==
    /\ bpc = "vectorize_test"
    /\ IF VectorizeFails(test_parsed)
       THEN /\ berr' = "KeyError"
            /\ bpc' = "error"
            /\ test' = test
       ELSE /\ berr' = berr
            /\ bpc' = "done"
            /\ test' = vectorize_stories(test_parsed)
    /\ UNCHANGED <<train_file, test_file, train_parsed, test_parsed, vocab_size,
                   word_idx, story_maxlen, query_maxlen, train, qaVars, parseVars>>

NextBabi ==
    \/ ParseTrain
    \/ ParseTest
    \/ compute_statistics
    \/ VectorizeTrain
    \/ VectorizeTest

SpecBabi == InitBabi /\ [][NextBabi]_vars

(* ------------------------- claims about QA --------------------------- *)
\* column i (1-based) of a yielded 2-d tensor
Column(t, i) == [j \in 1..Len(t.rows) |-> t.rows[j][i]]

\* rows k*bsz+1 .. (k+1)*bsz of array a, laid out one example per column
RowsAsColumns(a, k) ==
    [rows |-> [j \in 1..a.width |-> [i \in 1..bsz |-> a.rows[k * bsz + i][j]]],
     width |-> bsz]

\* what minibatch k (k = 0, 1, ...) has to be
ExpectedBatch(k) ==
    << <<RowsAsColumns(story, k), RowsAsColumns(query, k)>>,
       RowsAsColumns(answer, k) >>

\* the batches of one full pass, in order
FullPass == [k \in 1..(ndata \div bsz) |-> ExpectedBatch(k - 1)]

\* C1: a pass over N examples with batch size B yields exactly N div B
\* minibatches and then ends; every minibatch holds exactly B examples, and
\* the last N mod B examples occur in no minibatch.
C1_BatchCount ==
    \A c \in consumers :
        /\ Len(got[c]) <= ndata \div bsz
        /\ gen[c] = "done" => Len(got[c]) = ndata \div bsz
        /\ \A k \in 1..Len(got[c]) :
              /\ got[c][k][1][1].width = bsz
              /\ got[c][k][1][2].width = bsz
              /\ got[c][k][2].width = bsz
              /\ \A r \in ((ndata \div bsz) * bsz + 1)..ndata, i \in 1..bsz :
                    Column(got[c][k][1][1], i) # story.rows[r]

C1_Witness ==
    /\ ndata = 10
    /\ bsz = 3
    /\ gen[1] = "done"
    /\ Len(got[1]) = 3

\* C5: the k-th minibatch of a pass is rows [k*B, (k+1)*B) of the story,
\* the query and the answer array, in their original order.
C5_BatchRows ==
    \A c \in consumers :
        \A k \in 1..Len(got[c]) : got[c][k] = ExpectedBatch(k - 1)

C5_Witness ==
    /\ bsz >= 2
    /\ Len(got[1]) >= 3
    /\ ndata > bsz * Len(got[1])

C9_PassRestarts ==
    \A c \in consumers :
        /\ gen[c] \in {"suspended", "done"} =>
              /\ batch_index = Len(got[c])
              /\ 0 <= batch_index /\ batch_index <= nbatches
              /\ got[c] = SubSeq(FullPass, 1, Len(got[c]))
        /\ gen[c] = "done" => got[c] = FullPass

C9_Witness ==
    /\ passes[1] = 2
    /\ nbatches >= 3
    /\ stoppedAt[1] \in 1..(nbatches - 1)
    /\ gen[1] = "done"
    /\ got[1] = FullPass

\* the other of the two consumers
Other(c) == CHOOSE d \in {1, 2} : d # c

\* C8: what a generator yields is decided by the cursor field shared by
\* all generators of the object, and a consumer that is alone on the object
\* receives the full in-order sequence of batches.  (The witness is the
\* interleaving in which a consumer that finished its pass did not.)
C8_SharedCursor ==
    /\ [](\A c \in consumers :
            (gen[c] = "done" /\ \A d \in consumers \ {c} : passes[d] = 0)
                => got[c] = FullPass)
    /\ [][\A c \in consumers :
            Len(got'[c]) = Len(got[c]) + 1 =>
                /\ got'[c][Len(got'[c])] =
                      ExpectedBatch(IF gen[c] = "created" THEN 0 ELSE batch_index)
                /\ batch_index' =
                      (IF gen[c] = "created" THEN 0 ELSE batch_index) + 1]_vars

C8_Witness ==
    /\ consumers = {1, 2}
    /\ \E c \in consumers :
          /\ gen[c] = "done"
          /\ gen[Other(c)] \in {"suspended", "done"}
          /\ got[c] # FullPass

(* ----------------------- claims about parse_babi ----------------------- *)
\* the text "1 Mary moved to the bathroom.\n2 Where is Mary?\tbathroom\t1"
ScenarioText == LineMarySentence \o <<"\n">> \o LineMaryQuestion

\* the one example (story, query, answer) the scenario is to parse to
ScenarioExample ==
    <<  << <<"M", "a", "r", "y">>,
           <<"m", "o", "v", "e", "d">>,
           <<"t", "o">>,
           <<"t", "h", "e">>,
           <<"b", "a", "t", "h", "r", "o", "o", "m">>,
           <<".">> >>,
        << <<"W", "h", "e", "r", "e">>,
           <<"i", "s">>,
           <<"M", "a", "r", "y">>,
           <<"?">> >>,
        <<"b", "a", "t", "h", "r", "o", "o", "m">> >>

\* the lines of a text when only a trailing empty line is discarded
LinesOfText(text) ==
    LET parts == Split(text, "\n")
        kept  == IF parts[Len(parts)] = <<>> THEN SubSeq(parts, 1, Len(parts) - 1)
                 ELSE parts
    IN  [i \in 1..Len(kept) |-> Strip(kept[i])]

\* C2: the scenario text (no newline after its last line) parses to exactly
\* one example (Mary's sentence, the query Where is Mary ?, the answer
\* bathroom): data_to_list discards only a trailing empty line, so the loop
\* is given every line of the text, the last one included.
C2_ScenarioParsed ==
    (babi_data = ScenarioText /\ pc \in {"done", "error"}) =>
        /\ lines = LinesOfText(babi_data)
        /\ pc = "done"
        /\ result = <<ScenarioExample>>

\* position of the first space of a line, and the two parts around it
FirstSpace(l) == CHOOSE i \in 1..Len(l) : l[i] = " " /\ \A j \in 1..(i - 1) : l[j] # " "

IndexField(l) == SubSeq(l, 1, FirstSpace(l) - 1)

Body(l) == SubSeq(l, FirstSpace(l) + 1, Len(l))

\* line i is a question line / opens a new story context
IsQuestion(i) == Contains(Body(lines[i]), "\t")

OpensContext(i) == IndexField(lines[i]) \in {<<"1">>, <<"0", "1">>, <<"+", "1">>}

\* the first line of the story context line i lies in
ContextStart(i) ==
    IF \E j \in 1..i : OpensContext(j)
    THEN CHOOSE j \in 1..i : OpensContext(j) /\ \A m \in (j + 1)..i : ~OpensContext(m)
    ELSE 1

\* the tokens of the story sentences on lines j .. i-1, in order
RECURSIVE SentenceTokens(_, _)
SentenceTokens(j, i) ==
    IF j >= i THEN <<>>
    ELSE (IF IsQuestion(j) THEN <<>> ELSE tokenize(Body(lines[j])))
             \o SentenceTokens(j + 1, i)

\* the sum of the token counts of the story sentences on lines j .. i-1
RECURSIVE SentenceTokenCount(_, _)
SentenceTokenCount(j, i) ==
    IF j >= i THEN 0
    ELSE (IF IsQuestion(j) THEN 0 ELSE Len(tokenize(Body(lines[j]))))
             + SentenceTokenCount(j + 1, i)

\* the positions of the question lines, in order
RECURSIVE QuestionsFrom(_)
QuestionsFrom(i) ==
    IF i > Len(lines) THEN <<>>
    ELSE (IF IsQuestion(i) THEN <<i>> ELSE <<>>) \o QuestionsFrom(i + 1)

\* C7: a line with index 1 clears the story buffer, and a completed parse
\* holds one example per question line, in order, whose story is the
\* in-order concatenation of the tokens of the story sentences between the
\* most recent index-1 line (inclusive) and the question line: nothing of
\* an earlier context, nothing for the placeholders of earlier questions,
\* and as many tokens as those sentences hold together.
C7_StoryContext ==
    /\ (pc = "loop" /\ pos > 1 /\ OpensContext(pos - 1)) => Len(cur_story) = 1
    /\ pc = "done" =>
          LET qs == QuestionsFrom(1)
          IN  /\ Len(result) = Len(qs)
              /\ \A k \in 1..Len(qs) :
                    /\ result[k][1] = SentenceTokens(ContextStart(qs[k]), qs[k])
                    /\ Len(result[k][1]) =
                           SentenceTokenCount(ContextStart(qs[k]), qs[k])
                    /\ result[k][2] = tokenize(Split(Body(lines[qs[k]]), "\t")[1])
                    /\ result[k][3] = Split(Body(lines[qs[k]]), "\t")[2]

\* two questions of one context: the second has the sentences before and
\* after the first question, and nothing for the first question itself
C7_Witness ==
    /\ pc = "done"
    /\ Len(lines) = 4
    /\ Len(result) = 2
    /\ ~IsQuestion(3)
    /\ ContextStart(4) = 1
    /\ Len(result[2][1]) > Len(result[1][1])

\* question line i finds no story sentence with a token in its context
EmptyContextQuestion(i) ==
    /\ IsQuestion(i)
    /\ SentenceTokenCount(ContextStart(i), i) = 0

\* every line splits into an integer index and a body, a body with a tab
\* into exactly three fields
WellFormed(l) ==
    /\ Contains(l, " ")
    /\ IsInt(IndexField(l))
    /\ Contains(Body(l), "\t") => Len(Split(Body(l), "\t")) = 3

\* C10: parse_babi never returns an example with an empty story: when a
\* question line finds no non-empty story sentence in its context, the
\* flattening of the empty list fails and the parse ends with an error and
\* returns nothing.
C10_NoEmptyStory ==
    /\ pc = "done" => \A k \in 1..Len(result) : Len(result[k][1]) > 0
    /\ pc \in {"done", "error"} =>
          \A i \in 1..Len(lines) :
              ((\A j \in 1..i : WellFormed(lines[j])) /\ EmptyContextQuestion(i))
                  => /\ pc = "error"
                     /\ result = <<>>
                     /\ (\A j \in 1..Len(lines) : WellFormed(lines[j]))
                            => err = "TypeError"

\* the first example has a story, the second has none: the parse aborts
C10_Witness ==
    /\ pc = "error"
    /\ err = "TypeError"
    /\ Len(data) = 2
    /\ Len(data[1][1]) > 0
    /\ Len(data[2][1]) = 0

(* -------------------- claims about the vocabulary ---------------------- *)
\* the distinct tokens of the stories, queries and answers of both splits
AllTokens ==
    UNION {Range(train_parsed[i][1]) \cup Range(train_parsed[i][2])
               \cup {train_parsed[i][3]} : i \in 1..Len(train_parsed)}
      \cup
    UNION {Range(test_parsed[i][1]) \cup Range(test_parsed[i][2])
               \cup {test_parsed[i][3]} : i \in 1..Len(test_parsed)}

\* the tokens of the train split alone
TrainTokens ==
    UNION {Range(train_parsed[i][1]) \cup Range(train_parsed[i][2])
               \cup {train_parsed[i][3]} : i \in 1..Len(train_parsed)}

StatisticsDone == bpc \in {"vectorize_train", "vectorize_test", "done"}

\* C3: after compute_statistics vocab_size is the number of distinct tokens
\* plus 1, and word_idx maps the distinct tokens one-to-one onto
\* 1..vocab_size-1 in sorted token order (no token has index 0).
C3_Vocabulary ==
    StatisticsDone =>
        /\ vocab_size = Cardinality(AllTokens) + 1
        /\ DOMAIN word_idx = AllTokens
        /\ \A w \in AllTokens : word_idx[w] \in 1..(vocab_size - 1)
        /\ \A i \in 1..(vocab_size - 1) : \E w \in AllTokens : word_idx[w] = i
        /\ \A v, w \in AllTokens : v # w => word_idx[v] # word_idx[w]
        /\ \A v, w \in AllTokens : StrLess(v, w) => word_idx[v] < word_idx[w]

C3_Witness ==
    /\ StatisticsDone
    /\ vocab_size >= 6
    /\ Len(train_parsed) >= 1
    /\ Len(test_parsed) >= 1

\* the entries of a vectorized split: rows of story indices, of query
\* indices, and one-hot answers
IndicesOf(v, part) == UNION {Range(v[part].rows[i]) : i \in 1..Len(v[part].rows)}

\* C4: vectorizing the train and the test examples never fails a word_idx
\* lookup: every token of both splits, one that occurs in the test split
\* only included, has an index in 1..vocab_size-1.
C4_NoLookupFailure ==
    /\ berr # "KeyError"
    /\ StatisticsDone =>
          \A w \in AllTokens :
              w \in DOMAIN word_idx /\ word_idx[w] \in 1..(vocab_size - 1)
    /\ bpc = "done" =>
          /\ Len(train[1].rows) = Len(train_parsed)
          /\ Len(test[1].rows) = Len(test_parsed)
          /\ IndicesOf(test, 1) \cup IndicesOf(test, 2) \subseteq 0..(vocab_size - 1)
          /\ \A i \in 1..Len(test_parsed) :
                test[3].rows[i][word_idx[test_parsed[i][3]] + 1] = 1

\* both splits are vectorized and a token of the test split is in no train
\* example
C4_Witness ==
    /\ bpc = "done"
    /\ Len(train_parsed) >= 1
    /\ \E w \in AllTokens : w \notin TrainTokens

=============================================================================
